---- MODULE Spec2Model ----
(***************************************************************************)
(* A model of the meeting scheduler's placement engine (src/lib.go):       *)
(* candidate.Schedule lays the requests out one by one with                *)
(* constructedSchedule.Add, candidate.Evaluate scores the result and       *)
(* Scheduler.Run returns the events of the best candidate.                 *)
(*                                                                         *)
(* Time is counted in units of 15 minutes.  A pointer that may be nil is a *)
(* sequence of length 0 (nil) or 1.                                        *)
(*                                                                         *)
(* The earlier revision src/unnamed/part_000, whose attendees prefer a     *)
(* pause between meetings, runs when revision is "part_000" (SpecPause).   *)
(***************************************************************************)
EXTENDS Integers, Sequences, FiniteSets, TLC

\* ------------------------------------------------------------------ bounds

\* Number of requests handed to New.
NReqs == 3

\* lib.go:273
MaxIterations == 1000

\* The anchors (Scheduler.earliest) the model tries.
Anchors == {1}

AttendeeIDs == {"a", "b", "c", "d", "e"}

RoomIDs == {"r1", "r2"}

\* ------------------------------------------------------------ time interval

\* TimeInterval{Start, End}
TimeInterval(s, e) == [Start |-> s, End |-> e]

\* TimeInterval.Overlaps without its two checks for intervals that touch.
OverlapsTouching(ti, ti2) ==
    IF ti.End < ti2.Start THEN FALSE
    ELSE IF ti2.End < ti.Start THEN FALSE
    ELSE TRUE

\* TimeInterval.Overlaps
Overlaps(ti, ti2) ==
    IF ti.End < ti2.Start THEN FALSE
    ELSE IF ti2.End < ti.Start THEN FALSE
    ELSE IF ti.End = ti2.Start THEN FALSE
    ELSE IF ti2.End = ti.Start THEN FALSE
    ELSE TRUE

\* ---------------------------------------------------------------- calendars

Min(S) == CHOOSE x \in S : \A y \in S : x <= y

\* The three results of Calendar.Overlap: (*CalendarEvent, bool, error).
OverlapResult(ev, overlaps, e) == [ev |-> ev, overlaps |-> overlaps, err |-> e]

\* FakeCalendar.Overlap of the tests: the first interval of the calendar that
\* ends exactly where the queried interval starts is reported as overlapping.
\* (Its panic on an interval that ends before it starts cannot happen: the
\* calendars below hold well-formed intervals only.)
FakeCalendarOverlap(f, interval) ==
    LET hits == {i \in 1..Len(f) :
                    ~(f[i].End < interval.Start \/ interval.Start < f[i].End)}
    IN  IF hits = {} THEN OverlapResult(<<>>, FALSE, "nil")
        ELSE OverlapResult(<<f[Min(hits)]>>, TRUE, "nil")

\* A calendar that keeps the interface's contract: it reports the first of its
\* events that overlaps the queried interval.
BusyCalendarOverlap(f, interval) ==
    LET hits == {i \in 1..Len(f) : Overlaps(f[i], interval)}
    IN  IF hits = {} THEN OverlapResult(<<>>, FALSE, "nil")
        ELSE OverlapResult(<<f[Min(hits)]>>, TRUE, "nil")

\* Calendar.Overlap that answers "free" when the backing store fails.
CalendarOverlapIgnoreError(cal, interval) ==
    IF cal.kind = "error" THEN OverlapResult(<<>>, FALSE, "nil")
    ELSE IF cal.kind = "fake" THEN FakeCalendarOverlap(cal.events, interval)
    ELSE BusyCalendarOverlap(cal.events, interval)

\* Calendar.Overlap, by the kind of calendar behind the interface.
CalendarOverlap(cal, interval) ==
    IF cal.kind = "error" THEN OverlapResult(<<>>, FALSE, "calendar error")
    ELSE IF cal.kind = "fake" THEN FakeCalendarOverlap(cal.events, interval)
    ELSE BusyCalendarOverlap(cal.events, interval)

EmptyCalendar == [kind |-> "fake", events |-> <<>>]

\* Busy during the first slot after the anchor 1.
BusyCalendar == [kind |-> "busy", events |-> <<TimeInterval(1, 2)>>]

\* Busy during the two slots after the anchor, the later event listed first.
BusyTwiceCalendar == [kind |-> "busy", events |-> <<TimeInterval(2, 3), TimeInterval(1, 2)>>]

\* A FakeCalendar holding an interval that ends at the anchor 1.
FakeCalendar == [kind |-> "fake", events |-> <<TimeInterval(0, 1)>>]

\* A calendar whose backing store fails.
ErrorCalendar == [kind |-> "error", events |-> <<>>]

AttendeeCalendars ==
    {EmptyCalendar, BusyCalendar, BusyTwiceCalendar, FakeCalendar, ErrorCalendar}

RoomCalendars == {EmptyCalendar, BusyCalendar, ErrorCalendar}

\* Attendee c and room r2 carry a calendar of the pools, the others are free.
CalendarConfigs ==
    {[id \in AttendeeIDs \cup RoomIDs |->
        IF id = "c" THEN ac ELSE IF id = "r2" THEN rc ELSE EmptyCalendar] :
     ac \in AttendeeCalendars, rc \in RoomCalendars}

\* ----------------------------------------------------------------- requests

\* ScheduleRequest{Length, Attendees, PossibleRooms}
ScheduleRequest(l, as, rs) == [Length |-> l, Attendees |-> as, PossibleRooms |-> rs]

\* The requests the model draws from: a long meeting of two attendees, two
\* short ones of a third attendee that differ in their rooms, and one that can
\* take place in no room.
RequestPool ==
    << ScheduleRequest(2, <<"a", "b">>, <<"r2", "r1">>),
       ScheduleRequest(1, <<"c">>, <<"r2", "r1">>),
       ScheduleRequest(1, <<"c">>, <<"r2">>),
       ScheduleRequest(1, <<"b">>, <<>>) >>

\* The request lists handed to New.  Placement reads reqs only through order,
\* so the lists are taken in the pool's order and order ranges over every
\* permutation: each sequence of n pool requests is placed by some pair.
RequestLists(n) ==
    {[i \in 1..n |-> RequestPool[k[i]]] :
        k \in {f \in [1..n -> DOMAIN RequestPool] : \A i \in 1..(n - 1) : f[i] <= f[i + 1]}}

\* The requests of the tests: one room, which every request asks for.
TestRooms == <<"r1">>

\* TestOptimalSolutionEvaluation: one request of 60 minutes.
TestOptimalRequests == <<ScheduleRequest(4, <<"a", "b">>, TestRooms)>>

\* TestPuttingEventsEarlierInTheWeekIsBetter: 60 minutes for two attendees,
\* 30 minutes for the same two and a third.
\* (christian, jens and henrik are a, b and c.)
TestEarlierRequests ==
    << ScheduleRequest(4, <<"a", "b">>, TestRooms),
       ScheduleRequest(2, <<"a", "b", "c">>, TestRooms) >>

\* TestFragmentedDayIsWorseThanNonFragmentedDay: three requests of 60 minutes.
TestFragmentedRequests ==
    << ScheduleRequest(4, <<"a", "b">>, TestRooms),
       ScheduleRequest(4, <<"e", "a">>, TestRooms),
       ScheduleRequest(4, <<"c", "d">>, TestRooms) >>

\* TestSchedulingOfSolution: requests of 15, 60 and 30 minutes.
TestSchedulingRequests ==
    << ScheduleRequest(1, <<"a", "b">>, TestRooms),
       ScheduleRequest(4, <<"e", "a">>, TestRooms),
       ScheduleRequest(2, <<"c", "d">>, TestRooms) >>

\* TestDayFragmentationIsBad: three requests of 60 minutes.
TestDayFragmentationRequests ==
    << ScheduleRequest(4, <<"a", "b">>, TestRooms),
       ScheduleRequest(4, <<"c", "d">>, TestRooms),
       ScheduleRequest(4, <<"e", "a">>, TestRooms) >>

TestRequestLists ==
    {TestOptimalRequests, TestEarlierRequests, TestFragmentedRequests,
     TestSchedulingRequests, TestDayFragmentationRequests}

\* emptyCalendar := FakeCalendar{} for every attendee and room.
TestCalendars == [id \in AttendeeIDs \cup RoomIDs |-> EmptyCalendar]

Orders(n) == {o \in [1..n -> 0..(n - 1)] : \A i, j \in 1..n : o[i] = o[j] => i = j}

RoomOrders == {o \in [1..Cardinality(RoomIDs) -> RoomIDs] :
                 \A i, j \in DOMAIN o : o[i] = o[j] => i = j}

\* The orders in which a range over the map eventsByAttendee of schedule c may
\* yield its keys.
AttendeeOrders(c) ==
    LET keys == DOMAIN c.eventsByAttendee
    IN  {o \in [1..Cardinality(keys) -> keys] : \A i, j \in DOMAIN o : o[i] = o[j] => i = j}

NoRoom == "none"

VARIABLES
    earliest,      \* Scheduler.earliest, candidate.earliest, constructedSchedule.earliest
    reqs,          \* Scheduler.reqs (index 0 is reqs[1])
    order,         \* candidate.order
    calendars,     \* the Calendar of every attendee and room
    perIteration,  \* whether the build gives each loop iteration its own loop variable
    revision,      \* the revision of the source that runs: "lib.go" or "part_000"
    expectedPause, \* Attendee.ExpectedPause of every attendee (part_000 only)
    pc,            \* where Run is
    pass,          \* 1: candidate.Evaluate inside ga.Minimize, 2: the final Schedule of Run
    idx,           \* position in order of the request Schedule places next
    sch,           \* the constructedSchedule under construction
    candidate,     \* Add's candidate event
    iterations,    \* Add's iterations
    err,           \* the error Schedule returned
    fitness,       \* what candidate.Evaluate returned
    evaluated,     \* the Events of the schedule candidate.Evaluate built
    result,        \* what Run returned
    population,    \* the order of every candidate the genetic algorithm holds
    operator,      \* the genetic operator applied last (history)
    overlapsCall,  \* a call of TimeInterval.Overlaps: receiver, argument, result
    other,         \* the locals of a second candidate.Evaluate that runs concurrently
    alone          \* what the calls of candidate.Evaluate returned that ran alone

vars == <<earliest, reqs, order, calendars, perIteration, revision, expectedPause,
          pc, pass, idx, sch, candidate, iterations, err, fitness, evaluated,
          result, population, operator, overlapsCall, other, alone>>

inputs == <<earliest, reqs, order, calendars, perIteration, revision, expectedPause>>

\* What Schedule, Add and Evaluate neither read nor write.
others == <<population, operator, overlapsCall, other, alone>>

\* s.reqs[event]
Req(event) == reqs[event + 1]

\* ------------------------------------------------------------ the placement

\* attendeeOverlap without the scan of the attendee's scheduled events.
attendeeOverlapCalendarOnly(c, a, ti) ==
    LET cal == CalendarOverlap(calendars[a], ti)
    IN  IF cal.err # "nil" THEN OverlapResult(<<>>, FALSE, cal.err) ELSE cal

\* attendeeOverlap taking a calendar's conflict for none.
attendeeOverlapNoCalendar(c, a, ti) ==
    LET cal == CalendarOverlap(calendars[a], ti)
        scheduled == IF a \in DOMAIN c.eventsByAttendee
                     THEN c.eventsByAttendee[a].Scheduled ELSE <<>>
        hits == {i \in 1..Len(scheduled) : Overlaps(scheduled[i], ti)}
    IN  IF cal.err # "nil" THEN OverlapResult(<<>>, FALSE, cal.err)
        ELSE IF hits = {} THEN OverlapResult(<<>>, FALSE, "nil")
        ELSE LET s == scheduled[Min(hits)]
             IN  OverlapResult(<<TimeInterval(s.Start, s.End)>>, TRUE, "nil")

\* findAttendeeOverlap for one attendee: the calendar first, then the
\* attendee's already scheduled events.
attendeeOverlap(c, a, ti) ==
    LET cal == CalendarOverlap(calendars[a], ti)
        scheduled == IF a \in DOMAIN c.eventsByAttendee
                     THEN c.eventsByAttendee[a].Scheduled ELSE <<>>
        hits == {i \in 1..Len(scheduled) : Overlaps(scheduled[i], ti)}
    IN  IF cal.err # "nil" THEN OverlapResult(<<>>, FALSE, cal.err)
        ELSE IF cal.overlaps THEN cal
        ELSE IF hits = {} THEN OverlapResult(<<>>, FALSE, "nil")
        ELSE LET s == scheduled[Min(hits)]
             IN  OverlapResult(<<TimeInterval(s.Start, s.End)>>, TRUE, "nil")

\* constructedSchedule.findAttendeeOverlap.  The field attendee is the
\* *Attendee that part_000 returns next to the event: the attendee whose
\* conflict was found, nil with an error.
findAttendeeOverlap(c, se) ==
    LET ti == TimeInterval(se.Start, se.End)
        res(i) == attendeeOverlap(c, se.Attendees[i], ti)
        hits == {i \in 1..Len(se.Attendees) : res(i).err # "nil" \/ res(i).overlaps}
        r == res(Min(hits))
    IN  IF hits = {}
        THEN [ev |-> <<>>, overlaps |-> FALSE, err |-> "nil", attendee |-> <<>>]
        ELSE [ev |-> r.ev, overlaps |-> r.overlaps, err |-> r.err,
              attendee |-> IF r.overlaps THEN <<se.Attendees[Min(hits)]>> ELSE <<>>]

\* earliestEnd pointing at the Start of the event instead of its End.
earliestStart(c, ti, perIter) ==
    LET hits == {i \in 1..Len(c.Events) : Overlaps(c.Events[i], ti)}
    IN  IF hits = {} THEN <<>>
        ELSE IF perIter THEN <<Min({c.Events[i].Start : i \in hits})>>
        ELSE <<c.Events[Len(c.Events)].Start>>

\* The value *earliestEnd has when findAlreadyScheduledRooms returns.  With a
\* loop variable per iteration it is the least End of the overlapping events.
\* With one loop variable for the whole loop, &event.End is the address of a
\* field of that variable, which holds the last element of c.Events when the
\* loop is over.
earliestEnd(c, ti, perIter) ==
    LET hits == {i \in 1..Len(c.Events) : Overlaps(c.Events[i], ti)}
    IN  IF hits = {} THEN <<>>
        ELSE IF perIter THEN <<Min({c.Events[i].End : i \in hits})>>
        ELSE <<c.Events[Len(c.Events)].End>>

RECURSIVE earliestStartFrom(_, _, _, _)
\* The loop of part_000's findAlreadyScheduledRooms from event i on, with a
\* loop variable per iteration: the pointer moves to the End of an overlapping
\* event whose Start is before the time it points at.
earliestStartFrom(c, ti, i, ptr) ==
    IF i > Len(c.Events) THEN ptr
    ELSE IF Overlaps(c.Events[i], ti) /\ (ptr = <<>> \/ c.Events[i].Start < ptr[1])
         THEN earliestStartFrom(c, ti, i + 1, <<c.Events[i].End>>)
    ELSE earliestStartFrom(c, ti, i + 1, ptr)

\* The value *earliestStart has when part_000's findAlreadyScheduledRooms
\* returns.  With one loop variable for the whole loop it is, as in lib.go,
\* the End of the last element of c.Events.
earliestStartPart000(c, ti, perIter) ==
    LET hits == {i \in 1..Len(c.Events) : Overlaps(c.Events[i], ti)}
    IN  IF hits = {} THEN <<>>
        ELSE IF perIter THEN earliestStartFrom(c, ti, 1, <<>>)
        ELSE <<c.Events[Len(c.Events)].End>>

\* constructedSchedule.findAlreadyScheduledRooms; mapOrder is the order in which
\* the range over the map m yields its keys.
findAlreadyScheduledRooms(c, ti, perIter, mapOrder) ==
    LET m == {c.Events[i].Room : i \in {j \in 1..Len(c.Events) : Overlaps(c.Events[j], ti)}}
    IN  [rooms |-> SelectSeq(mapOrder, LAMBDA r : r \in m),
         nextTimeToTry |-> IF revision = "part_000" THEN earliestStartPart000(c, ti, perIter)
                           ELSE earliestEnd(c, ti, perIter)]

\* availableRoom taking the last room of the list that can be had, not the first.
availableRoomLast(se, possibleRooms, lookup) ==
    LET ti == TimeInterval(se.Start, se.End)
        res(i) == CalendarOverlap(calendars[possibleRooms[i]], ti)
        hits == {i \in 1..Len(possibleRooms) :
                    /\ possibleRooms[i] \notin lookup
                    /\ res(i).err = "nil" /\ ~res(i).overlaps}
        last == CHOOSE i \in hits : \A j \in hits : j <= i
    IN  IF hits = {} THEN [room |-> <<>>, found |-> FALSE, err |-> "nil"]
        ELSE [room |-> <<possibleRooms[last]>>, found |-> TRUE, err |-> "nil"]

\* The loop of findAvailableRoom over the request's PossibleRooms, given the
\* lookup set built from the excluded rooms.
availableRoom(se, possibleRooms, lookup) ==
    LET ti == TimeInterval(se.Start, se.End)
        res(i) == CalendarOverlap(calendars[possibleRooms[i]], ti)
        hits == {i \in 1..Len(possibleRooms) :
                    /\ possibleRooms[i] \notin lookup
                    /\ res(i).err # "nil" \/ ~res(i).overlaps}
    IN  IF hits = {} THEN [room |-> <<>>, found |-> FALSE, err |-> "nil"]
        ELSE IF res(Min(hits)).err # "nil"
             THEN [room |-> <<>>, found |-> FALSE, err |-> res(Min(hits)).err]
        ELSE [room |-> <<possibleRooms[Min(hits)]>>, found |-> TRUE, err |-> "nil"]

\* findAvailableRoom that excludes no room.
findAvailableRoomNoLookup(se, possibleRooms, excluded) ==
    availableRoom(se, possibleRooms, {})

\* findAvailableRoom that excludes only the first room of the excluded list.
findAvailableRoomFirstExcluded(se, possibleRooms, excluded) ==
    availableRoom(se, possibleRooms, IF excluded = <<>> THEN {} ELSE {excluded[1]})

\* constructedSchedule.findAvailableRoom
findAvailableRoom(se, possibleRooms, excluded) ==
    availableRoom(se, possibleRooms, {excluded[i] : i \in 1..Len(excluded)})

\* The candidate Add starts from.
newCandidate(event) ==
    [Start |-> earliest, End |-> earliest + Req(event).Length,
     Attendees |-> Req(event).Attendees, Room |-> NoRoom, Request |-> event]

\* moveTo that leaves candidate.End where it was.
moveToKeepEnd(se, t) == [se EXCEPT !.Start = t]

\* candidate.Start = t; candidate.End = candidate.Start.Add(req.Length)
moveTo(se, t) == [se EXCEPT !.Start = t, !.End = t + Req(se.Request).Length]

\* The start of the conflicting event instead of its end.
afterOverlapStart(overlap, attendee) == overlap.Start + expectedPause[attendee]

\* afterOverlap without the attendee's pause.
afterOverlapNoPause(overlap, attendee) == overlap.End

\* Where an attendee's conflict sends the candidate: overlap.End in lib.go,
\* overlap.End.Add(attendee.ExpectedPause) in part_000.
afterOverlap(overlap, attendee) ==
    IF revision = "part_000" THEN overlap.End + expectedPause[attendee] ELSE overlap.End

\* The index into order instead of its element.
scheduleEventIndex(i) == i - 1

\* The loop variable of Schedule's range over s.order at its i-th element.
scheduleEvent(i) == order[i]

RECURSIVE appendForAttendees(_, _, _)
\* The loop over req.Attendees that ends Add.
appendForAttendees(byAttendee, attendees, se) ==
    IF attendees = <<>> THEN byAttendee
    ELSE LET a == Head(attendees)
             e == IF a \in DOMAIN byAttendee THEN byAttendee[a]
                  ELSE [Attendee |-> a, Scheduled |-> <<>>]
             e2 == [e EXCEPT !.Scheduled = Append(@, se)]
             m2 == [k \in DOMAIN byAttendee \cup {a} |-> IF k = a THEN e2 ELSE byAttendee[k]]
         IN  appendForAttendees(m2, Tail(attendees), se)

\* appendEvent that records the event for the first attendee only.
appendEventFirstAttendee(c, se) ==
    [Events |-> Append(c.Events, se),
     eventsByAttendee |->
        appendForAttendees(c.eventsByAttendee, SubSeq(se.Attendees, 1, 1), se)]

\* c.Events = append(c.Events, candidate) and the per-attendee lists.
appendEvent(c, se) ==
    [Events |-> Append(c.Events, se),
     eventsByAttendee |-> appendForAttendees(c.eventsByAttendee, se.Attendees, se)]

EmptySchedule == [Events |-> <<>>, eventsByAttendee |-> <<>>]

RECURSIVE sumGapsFromStart(_, _, _)
\* sumGaps measuring from the start of the earlier event.
sumGapsFromStart(scheduled, i, pause) ==
    IF i >= Len(scheduled) THEN 0
    ELSE (scheduled[i + 1].Start - scheduled[i].Start) - pause
         + sumGapsFromStart(scheduled, i + 1, pause)

\* sumGaps that counts no gap.
sumGapsNone(scheduled, i, pause) == 0

RECURSIVE sumGaps(_, _, _)
\* The inner loop of Evaluate over attendee.Scheduled[1:], from index i on;
\* pause is attendee.Attendee.ExpectedPause, which part_000 subtracts from
\* every gap and lib.go does not have.
sumGaps(scheduled, i, pause) ==
    IF i >= Len(scheduled) THEN 0
    ELSE (scheduled[i + 1].Start - scheduled[i].End) - pause
         + sumGaps(scheduled, i + 1, pause)

\* attendee.Attendee.ExpectedPause as Evaluate reads it.
attendeePause(attendee) ==
    IF revision = "part_000" THEN expectedPause[attendee.Attendee] ELSE 0

RECURSIVE sumAttendeesGapsOnly(_, _, _)
\* sumAttendees without the distance from the anchor to the first event.
sumAttendeesGapsOnly(c, anchor, keys) ==
    IF keys = <<>> THEN 0
    ELSE LET attendee == c.eventsByAttendee[Head(keys)]
         IN  sumGaps(attendee.Scheduled, 1, attendeePause(attendee))
             + sumAttendeesGapsOnly(c, anchor, Tail(keys))

RECURSIVE sumAttendees(_, _, _)
sumAttendees(c, anchor, keys) ==
    IF keys = <<>> THEN 0
    ELSE LET attendee == c.eventsByAttendee[Head(keys)]
         IN  (attendee.Scheduled[1].Start - anchor)
             + sumGaps(attendee.Scheduled, 1, attendeePause(attendee))
             + sumAttendees(c, anchor, Tail(keys))

\* constructedSchedule.Evaluate; mapOrder is the order in which the range over
\* eventsByAttendee yields its keys.  The score is a time.Duration, converted
\* to float64 without loss for the values that occur.
Evaluate(c, anchor, mapOrder) ==
    sumAttendees(c, anchor, SelectSeq(mapOrder, LAMBDA a : a \in DOMAIN c.eventsByAttendee))

\* --------------------------------------------------------------- the actions

NoCandidate == [Start |-> 0, End |-> 0, Attendees |-> <<>>, Room |-> NoRoom, Request |-> 0]

NoResult == [events |-> <<>>, err |-> "none"]

NoCall == [ti |-> TimeInterval(0, 0), ti2 |-> TimeInterval(0, 0), overlaps |-> <<>>]

\* lib.go's Attendee has no ExpectedPause.
NoPause == [a \in AttendeeIDs |-> 0]

\* No second candidate.Evaluate runs.
NoRun == <<>>

Init ==
    /\ earliest \in Anchors
    /\ \/ /\ reqs \in RequestLists(NReqs)
          /\ calendars \in CalendarConfigs
       \/ /\ reqs \in TestRequestLists
          /\ calendars = TestCalendars
    /\ order \in Orders(Len(reqs))
    /\ perIteration \in BOOLEAN
    /\ revision = "lib.go"
    /\ expectedPause = NoPause
    /\ pc = "schedule"
    /\ pass = 1
    /\ idx = 1
    /\ sch = EmptySchedule
    /\ candidate = NoCandidate
    /\ iterations = 0
    /\ err = "nil"
    /\ fitness = 0
    /\ evaluated = <<>>
    /\ result = NoResult
    /\ population = <<>>
    /\ operator = "none"
    /\ overlapsCall = NoCall
    /\ other = NoRun
    /\ alone = <<>>

\* Schedule calls Add for the next request of the order; Add builds its candidate.
ScheduleAdd ==
    /\ pc = "schedule"
    /\ idx <= Len(order)
    /\ candidate' = newCandidate(scheduleEvent(idx))
    /\ iterations' = 0
    /\ pc' = "add"
    /\ UNCHANGED <<inputs, others, pass, idx, sch, err, fitness, evaluated, result>>

\* Schedule has placed every request and returns sch, nil.
ScheduleReturn ==
    /\ pc = "schedule"
    /\ idx > Len(order)
    /\ err' = "nil"
    /\ pc' = "scheduled"
    /\ UNCHANGED <<inputs, others, pass, idx, sch, candidate, iterations, fitness, evaluated, result>>

\* One turn of Add's loop that finds an attendee busy: the candidate moves to
\* the end of the conflicting event and the loop continues, iterations
\* untouched.  When the candidate does not move, the loop is back in the state
\* it started the turn in and repeats it for ever: pc "hang".
AddAttendeeOverlap ==
    /\ pc = "add"
    /\ LET o == findAttendeeOverlap(sch, candidate)
       IN  /\ o.err = "nil"
           /\ o.overlaps
           /\ candidate' = moveTo(candidate, afterOverlap(o.ev[1], o.attendee[1]))
           /\ pc' = IF candidate' = candidate THEN "hang" ELSE "add"
    /\ UNCHANGED <<inputs, others, pass, idx, sch, iterations, err, fitness, evaluated, result>>

\* AddCalendarError that appends the candidate before it returns the error.
AddCalendarErrorAppending ==
    /\ pc = "add"
    /\ LET o == findAttendeeOverlap(sch, candidate)
       IN  \/ /\ o.err # "nil"
              /\ err' = o.err
           \/ /\ o.err = "nil"
              /\ ~o.overlaps
              /\ \E mapOrder \in RoomOrders :
                    LET busy == findAlreadyScheduledRooms(
                                    sch, TimeInterval(candidate.Start, candidate.End),
                                    perIteration, mapOrder)
                        r == findAvailableRoom(
                                 candidate, Req(candidate.Request).PossibleRooms, busy.rooms)
                    IN  /\ r.err # "nil"
                        /\ err' = r.err
    /\ sch' = appendEvent(sch, candidate)
    /\ pc' = "scheduled"
    /\ UNCHANGED <<inputs, others, pass, idx, candidate, iterations, fitness, evaluated, result>>

\* A calendar of an attendee or of a room fails: Add returns the error and
\* Schedule returns sch, err.
AddCalendarError ==
    /\ pc = "add"
    /\ LET o == findAttendeeOverlap(sch, candidate)
       IN  \/ /\ o.err # "nil"
              /\ err' = o.err
           \/ /\ o.err = "nil"
              /\ ~o.overlaps
              /\ \E mapOrder \in RoomOrders :
                    LET busy == findAlreadyScheduledRooms(
                                    sch, TimeInterval(candidate.Start, candidate.End),
                                    perIteration, mapOrder)
                        r == findAvailableRoom(
                                 candidate, Req(candidate.Request).PossibleRooms, busy.rooms)
                    IN  /\ r.err # "nil"
                        /\ err' = r.err
    /\ pc' = "scheduled"
    /\ UNCHANGED <<inputs, others, pass, idx, sch, candidate, iterations, fitness, evaluated, result>>

\* A room is free: Add leaves the loop, appends the event and returns nil.
AddRoomFound ==
    /\ pc = "add"
    /\ LET o == findAttendeeOverlap(sch, candidate)
       IN  /\ o.err = "nil"
           /\ ~o.overlaps
           /\ \E mapOrder \in RoomOrders :
                 LET busy == findAlreadyScheduledRooms(
                                 sch, TimeInterval(candidate.Start, candidate.End),
                                 perIteration, mapOrder)
                     r == findAvailableRoom(
                              candidate, Req(candidate.Request).PossibleRooms, busy.rooms)
                 IN  /\ r.err = "nil"
                     /\ r.found
                     /\ candidate' = [candidate EXCEPT !.Room = r.room[1]]
                     /\ sch' = appendEvent(sch, candidate')
    /\ idx' = idx + 1
    /\ pc' = "schedule"
    /\ UNCHANGED <<inputs, others, pass, iterations, err, fitness, evaluated, result>>

\* No room is free and an already scheduled event overlaps the candidate: the
\* candidate moves to *nextTimeToTry and iterations is counted up; past
\* MaxIterations Add returns the error "too many iterations" ("Too many
\* iterations." in part_000).
AddRoomRetry ==
    /\ pc = "add"
    /\ LET o == findAttendeeOverlap(sch, candidate)
       IN  /\ o.err = "nil"
           /\ ~o.overlaps
           /\ \E mapOrder \in RoomOrders :
                 LET busy == findAlreadyScheduledRooms(
                                 sch, TimeInterval(candidate.Start, candidate.End),
                                 perIteration, mapOrder)
                     r == findAvailableRoom(
                              candidate, Req(candidate.Request).PossibleRooms, busy.rooms)
                 IN  /\ r.err = "nil"
                     /\ ~r.found
                     /\ busy.nextTimeToTry # <<>>
                     /\ candidate' = moveTo(candidate, busy.nextTimeToTry[1])
    /\ iterations' = iterations + 1
    /\ IF iterations' > MaxIterations
       THEN /\ err' = IF revision = "part_000" THEN "Too many iterations."
                       ELSE "too many iterations"
            /\ pc' = "scheduled"
       ELSE /\ err' = err
            /\ pc' = "add"
    /\ UNCHANGED <<inputs, others, pass, idx, sch, fitness, evaluated, result>>

\* No room is free and no already scheduled event overlaps the candidate:
\* nextTimeToTry is nil and candidate.Start = *nextTimeToTry panics.
AddNilDereference ==
    /\ pc = "add"
    /\ LET o == findAttendeeOverlap(sch, candidate)
       IN  /\ o.err = "nil"
           /\ ~o.overlaps
           /\ \E mapOrder \in RoomOrders :
                 LET busy == findAlreadyScheduledRooms(
                                 sch, TimeInterval(candidate.Start, candidate.End),
                                 perIteration, mapOrder)
                     r == findAvailableRoom(
                              candidate, Req(candidate.Request).PossibleRooms, busy.rooms)
                 IN  /\ r.err = "nil"
                     /\ ~r.found
                     /\ busy.nextTimeToTry = <<>>
    /\ pc' = "panic"
    /\ UNCHANGED <<inputs, others, pass, idx, sch, candidate, iterations, err, fitness, evaluated, result>>

\* candidate.Evaluate, called by ga.Minimize: it scores what Schedule built,
\* also when Schedule failed.  Minimize returns the error and so does Run;
\* without an error Run calls Schedule on the candidate of the hall of fame.
CandidateEvaluate ==
    /\ pc = "scheduled"
    /\ pass = 1
    /\ \E mapOrder \in AttendeeOrders(sch) : fitness' = Evaluate(sch, earliest, mapOrder)
    /\ evaluated' = sch.Events
    /\ IF err # "nil"
       THEN /\ result' = [events |-> <<>>, err |-> err]
            /\ pc' = "returned"
            /\ UNCHANGED <<pass, idx, sch, candidate, iterations>>
       ELSE /\ pass' = 2
            /\ idx' = 1
            /\ sch' = EmptySchedule
            /\ candidate' = NoCandidate
            /\ iterations' = 0
            /\ pc' = "schedule"
            /\ UNCHANGED result
    /\ UNCHANGED <<inputs, others, err>>

\* The end of Run: nil, err when the final Schedule failed, else schedule.Events, nil.
RunReturn ==
    /\ pc = "scheduled"
    /\ pass = 2
    /\ result' = IF err # "nil" THEN [events |-> <<>>, err |-> err]
                 ELSE [events |-> sch.Events, err |-> "nil"]
    /\ pc' = "returned"
    /\ UNCHANGED <<inputs, others, pass, idx, sch, candidate, iterations, err, fitness, evaluated>>

Next ==
    \/ ScheduleAdd
    \/ ScheduleReturn
    \/ AddAttendeeOverlap
    \/ AddCalendarError
    \/ AddRoomFound
    \/ AddRoomRetry
    \/ AddNilDereference
    \/ CandidateEvaluate
    \/ RunReturn

Spec == Init /\ [][Next]_vars

\* ------------------------------------------------------ the genetic algorithm

\* Number of individuals ga.Minimize keeps.
PopSize == 2

\* The requests handed to New when the genetic algorithm is followed.
MinimizeRequests == <<RequestPool[1], RequestPool[2], RequestPool[3]>>

\* The calendars tried with them: room r2 busy at the anchor, or the calendar
\* of attendee c failing.
MinimizeCalendars ==
    {cfg \in CalendarConfigs :
        \/ cfg["c"] = EmptyCalendar /\ cfg["r2"] = BusyCalendar
        \/ cfg["c"] = ErrorCalendar /\ cfg["r2"] = EmptyCalendar}

\* order[i], order[j] = order[j], order[i] (positions counted from 1)
swap(o, i, j) == [o EXCEPT ![i] = o[j], ![j] = o[i]]

RECURSIVE shuffle(_, _)
\* What rng.Shuffle may leave in order: for i from n - 1 down to 1 (counted
\* from 0), position i is swapped with a position j drawn from 0..i.
shuffle(o, i) ==
    IF i < 1 THEN {o}
    ELSE UNION {shuffle(swap(o, i + 1, j + 1), i - 1) : j \in 0..i}

\* The orders Scheduler.ScheduleFactory may return for n requests.
factoryOrders(n) == shuffle([k \in 1..n |-> k - 1], n - 1)

\* The copy of order made by candidate.Clone that loses the first element.
CloneTail(o) == Tail(o)

\* append([]int(nil), s.order...) of candidate.Clone
Clone(o) == [k \in 1..Len(o) |-> o[k]]

RECURSIVE cycleFrom(_, _, _, _)
\* The cycle of positions through j: from position j to the position at which
\* p1 holds the value p2 holds at j, until a position comes again.
cycleFrom(p1, p2, j, cycle) ==
    IF j \in cycle THEN cycle
    ELSE cycleFrom(p1, p2, CHOOSE k \in 1..Len(p1) : p1[k] = p2[j], cycle \cup {j})

\* eaopt.CrossCXInt: cycle crossover.  The cycles are taken in the order of
\* their first position; the offspring keep the parents' values on every other
\* cycle and exchange them on the cycles in between.
CrossCXInt(p1, p2) ==
    LET n == Len(p1)
        first == [i \in 1..n |-> Min(cycleFrom(p1, p2, i, {}))]
        index == [i \in 1..n |-> Cardinality({first[k] : k \in {m \in 1..n : first[m] < first[i]}})]
    IN  << [i \in 1..n |-> IF index[i] % 2 = 0 THEN p1[i] ELSE p2[i]],
           [i \in 1..n |-> IF index[i] % 2 = 0 THEN p2[i] ELSE p1[i]] >>

\* eaopt.MutPermuteInt with one permutation: two positions p and q of the
\* genome are exchanged.
MutPermuteInt(o, p, q) == swap(o, p, q)

\* Run has called ga.Minimize, which has no individual yet.
InitMinimize ==
    /\ earliest \in Anchors
    /\ reqs = MinimizeRequests
    /\ calendars \in MinimizeCalendars
    /\ perIteration \in BOOLEAN
    /\ revision = "lib.go"
    /\ expectedPause = NoPause
    /\ order = <<>>
    /\ pc = "minimize"
    /\ pass = 1
    /\ idx = 1
    /\ sch = EmptySchedule
    /\ candidate = NoCandidate
    /\ iterations = 0
    /\ err = "nil"
    /\ fitness = 0
    /\ evaluated = <<>>
    /\ result = NoResult
    /\ population = <<>>
    /\ operator = "none"
    /\ overlapsCall = NoCall
    /\ other = NoRun
    /\ alone = <<>>

\* What the genetic operators leave alone.
placement == <<earliest, reqs, order, calendars, perIteration, revision, expectedPause,
               pc, pass, idx, sch, candidate, iterations, err, fitness, evaluated,
               result, overlapsCall, other, alone>>

\* ga.Minimize fills the population with the candidates of ScheduleFactory.
ScheduleFactory ==
    /\ pc = "minimize"
    /\ Len(population) < PopSize
    /\ \E o \in factoryOrders(Len(reqs)) : population' = Append(population, o)
    /\ operator' = "ScheduleFactory"
    /\ UNCHANGED placement

\* An individual is replaced by the clone of another (selection).
CandidateClone ==
    /\ pc = "minimize"
    /\ Len(population) = PopSize
    /\ \E i, j \in 1..PopSize :
          /\ i # j
          /\ population' = [population EXCEPT ![i] = Clone(population[j])]
    /\ operator' = "Clone"
    /\ UNCHANGED placement

\* candidate.Crossover: both candidates take the values of their offspring.
CandidateCrossover ==
    /\ pc = "minimize"
    /\ Len(population) = PopSize
    /\ \E i, j \in 1..PopSize :
          /\ i # j
          /\ LET offspring == CrossCXInt(population[i], population[j])
             IN  population' = [population EXCEPT ![i] = offspring[1], ![j] = offspring[2]]
    /\ operator' = "Crossover"
    /\ UNCHANGED placement

\* candidate.Mutate: nothing to permute in an order of one element or none.
CandidateMutate ==
    /\ pc = "minimize"
    /\ Len(population) = PopSize
    /\ \E i \in 1..PopSize :
          IF Len(population[i]) <= 1 THEN population' = population
          ELSE \E p, q \in 1..Len(population[i]) :
                  /\ p # q
                  /\ population' =
                        [population EXCEPT ![i] = MutPermuteInt(population[i], p, q)]
    /\ operator' = "Mutate"
    /\ UNCHANGED placement

\* ga.Minimize ends with an individual as HallOfFame[0]: its Evaluate and the
\* Schedule of Run follow.  Run reads nothing else of the population.
MinimizeBest ==
    /\ pc = "minimize"
    /\ Len(population) = PopSize
    /\ \E i \in 1..PopSize :
          /\ order' = population[i]
          /\ population' = <<population[i]>>
    /\ pc' = "schedule"
    /\ UNCHANGED <<earliest, reqs, calendars, perIteration, revision, expectedPause,
                   pass, idx, sch, candidate, iterations, err, fitness, evaluated,
                   result, operator, overlapsCall, other, alone>>

NextMinimize ==
    \/ ScheduleFactory
    \/ CandidateClone
    \/ CandidateCrossover
    \/ CandidateMutate
    \/ MinimizeBest
    \/ Next

SpecMinimize == InitMinimize /\ [][NextMinimize]_vars

\* ------------------------------------------------- TimeInterval.Overlaps alone

\* The instants the intervals of a call are drawn from: 0..MaxTime.
MaxTime == 3

\* Run has not been called.
Idle ==
    /\ earliest = 1
    /\ reqs = <<>>
    /\ order = <<>>
    /\ calendars = TestCalendars
    /\ perIteration = TRUE
    /\ revision = "lib.go"
    /\ expectedPause = NoPause
    /\ pc = "idle"
    /\ pass = 1
    /\ idx = 1
    /\ sch = EmptySchedule
    /\ candidate = NoCandidate
    /\ iterations = 0
    /\ err = "nil"
    /\ fitness = 0
    /\ evaluated = <<>>
    /\ result = NoResult

\* A call ti.Overlaps(ti2) is about to be made on any two intervals, the
\* malformed ones (End at or before Start) included.
InitOverlaps ==
    /\ Idle
    /\ population = <<>>
    /\ operator = "none"
    /\ other = NoRun
    /\ alone = <<>>
    /\ \E s, e, s2, e2 \in 0..MaxTime :
          overlapsCall = [ti |-> TimeInterval(s, e), ti2 |-> TimeInterval(s2, e2),
                          overlaps |-> <<>>]

\* The call returns.
TimeIntervalOverlaps ==
    /\ overlapsCall.overlaps = <<>>
    /\ overlapsCall' = [overlapsCall EXCEPT
                           !.overlaps = <<Overlaps(overlapsCall.ti, overlapsCall.ti2)>>]
    /\ UNCHANGED <<inputs, population, operator, other, alone, pc, pass, idx, sch, candidate,
                   iterations, err, fitness, evaluated, result>>

NextOverlaps == TimeIntervalOverlaps

SpecOverlaps == InitOverlaps /\ [][NextOverlaps]_vars

\* ------------------------------------------- the revision with ExpectedPause

\* Attendee.ExpectedPause in units of 15 minutes: every attendee prefers a
\* pause, or only attendee a, or only attendee c.
ExpectedPauses ==
    {[a \in AttendeeIDs |-> 1],
     [a \in AttendeeIDs |-> IF a = "a" THEN 1 ELSE 0],
     [a \in AttendeeIDs |-> IF a = "c" THEN 1 ELSE 0]}

\* Every calendar empty, or attendee c busy during the first slot.
PauseCalendars ==
    {TestCalendars, [TestCalendars EXCEPT !["c"] = BusyCalendar]}

\* Run of part_000 is about to evaluate the candidate with the given order.
InitPause ==
    /\ earliest \in Anchors
    /\ \/ /\ reqs \in {TestEarlierRequests, TestSchedulingRequests}
          /\ calendars \in PauseCalendars
       \/ /\ reqs = MinimizeRequests
          /\ calendars \in MinimizeCalendars
    /\ order \in Orders(Len(reqs))
    /\ perIteration \in BOOLEAN
    /\ revision = "part_000"
    /\ expectedPause \in ExpectedPauses
    /\ pc = "schedule"
    /\ pass = 1
    /\ idx = 1
    /\ sch = EmptySchedule
    /\ candidate = NoCandidate
    /\ iterations = 0
    /\ err = "nil"
    /\ fitness = 0
    /\ evaluated = <<>>
    /\ result = NoResult
    /\ population = <<>>
    /\ operator = "none"
    /\ overlapsCall = NoCall
    /\ other = NoRun
    /\ alone = <<>>

SpecPause == InitPause /\ [][Next]_vars

\* ------------------------------------------------ two concurrent evaluations

\* A call of candidate.Evaluate that shares with the calls before it the
\* constructedSchedule they built.
sharedScheduleRun(o) ==
    [order |-> o, pc |-> "schedule", pass |-> 1, idx |-> 1, sch |-> sch,
     candidate |-> NoCandidate, iterations |-> 0, err |-> "nil", fitness |-> 0,
     evaluated |-> <<>>, result |-> NoResult]

\* What a call of candidate.Evaluate on the candidate with order o starts
\* from: Schedule makes its own constructedSchedule, Add its own candidate
\* event and iterations.
freshRun(o) ==
    [order |-> o, pc |-> "schedule", pass |-> 1, idx |-> 1, sch |-> EmptySchedule,
     candidate |-> NoCandidate, iterations |-> 0, err |-> "nil", fitness |-> 0,
     evaluated |-> <<>>, result |-> NoResult]

\* The candidate and the locals of the call that is executing.
running ==
    [order |-> order, pc |-> pc, pass |-> pass, idx |-> idx, sch |-> sch,
     candidate |-> candidate, iterations |-> iterations, err |-> err,
     fitness |-> fitness, evaluated |-> evaluated, result |-> result]

\* The processor goes on with the call whose candidate and locals are run.
resume(run) ==
    /\ order' = run.order
    /\ pc' = run.pc
    /\ pass' = run.pass
    /\ idx' = run.idx
    /\ sch' = run.sch
    /\ candidate' = run.candidate
    /\ iterations' = run.iterations
    /\ err' = run.err
    /\ fitness' = run.fitness
    /\ evaluated' = run.evaluated
    /\ result' = run.result

\* candidate.Evaluate has returned or has not come back from Add.
finished(run) == run.pass = 2 \/ run.pc \in {"returned", "panic", "hang"}

\* What the two calls share and only read.
shared == <<earliest, reqs, calendars, perIteration, revision, expectedPause,
            population, operator, overlapsCall>>

\* Two candidates with different orders are to be evaluated: each of them
\* alone first, then both at the same time.
InitParallel ==
    /\ earliest \in Anchors
    /\ reqs = MinimizeRequests
    /\ calendars \in MinimizeCalendars
    /\ perIteration \in BOOLEAN
    /\ revision = "lib.go"
    /\ expectedPause = NoPause
    /\ order \in Orders(Len(reqs))
    /\ pc = "schedule"
    /\ pass = 1
    /\ idx = 1
    /\ sch = EmptySchedule
    /\ candidate = NoCandidate
    /\ iterations = 0
    /\ err = "nil"
    /\ fitness = 0
    /\ evaluated = <<>>
    /\ result = NoResult
    /\ population = <<>>
    /\ operator = "none"
    /\ overlapsCall = NoCall
    /\ other \in {freshRun(o) : o \in Orders(Len(reqs)) \ {order}}
    /\ alone = <<>>

\* A step of the call of candidate.Evaluate that is executing.
EvaluateStep ==
    /\ pass = 1
    /\ \/ ScheduleAdd
       \/ ScheduleReturn
       \/ AddAttendeeOverlap
       \/ AddCalendarError
       \/ AddRoomFound
       \/ AddRoomRetry
       \/ AddNilDereference
       \/ CandidateEvaluate

\* A call that ran with no other at its side is over: what it left is kept,
\* and the other candidate is evaluated alone, or, when both have been, the
\* two are evaluated again, now at the same time.
EvaluateAlone ==
    /\ Len(alone) < 2
    /\ finished(running)
    /\ alone' = Append(alone, running)
    /\ resume(freshRun(other.order))
    /\ other' = freshRun(order)
    /\ UNCHANGED shared

\* The processor leaves the call it executes, at any of its steps, for the
\* other one.
Switch ==
    /\ Len(alone) = 2
    /\ ~finished(other)
    /\ resume(other)
    /\ other' = running
    /\ UNCHANGED <<shared, alone>>

NextParallel ==
    \/ EvaluateStep
    \/ EvaluateAlone
    \/ Switch

SpecParallel == InitParallel /\ [][NextParallel]_vars

\* ---------------------------------------------------------------- the claims

\* Two half-open intervals share an instant.
Intersect(x, y) == x.Start < y.End /\ y.Start < x.End

Elems(seq) == {seq[i] : i \in 1..Len(seq)}

\* C1: no two events of the constructed schedule that are assigned the same
\* room overlap in time, whatever the ordering and however far construction got.
C1_NoRoomOverlap ==
    \A i, j \in 1..Len(sch.Events) :
        (i # j /\ sch.Events[i].Room = sch.Events[j].Room)
            => ~Intersect(sch.Events[i], sch.Events[j])

\* C1 witness: two events of attendees that have nothing in common were placed
\* in the same room.
C1_Witness ==
    \E i, j \in 1..Len(sch.Events) :
        /\ i < j
        /\ sch.Events[i].Room = sch.Events[j].Room
        /\ Elems(sch.Events[i].Attendees) \cap Elems(sch.Events[j].Attendees) = {}

\* C2: no two events of the constructed schedule that share an attendee ID
\* overlap in time.
C2_NoAttendeeOverlap ==
    \A i, j \in 1..Len(sch.Events) :
        (i # j /\ Elems(sch.Events[i].Attendees) \cap Elems(sch.Events[j].Attendees) # {})
            => ~Intersect(sch.Events[i], sch.Events[j])

\* C2 witness: two events that share an attendee were placed in different rooms.
C2_Witness ==
    \E i, j \in 1..Len(sch.Events) :
        /\ i < j
        /\ Elems(sch.Events[i].Attendees) \cap Elems(sch.Events[j].Attendees) # {}
        /\ sch.Events[i].Room # sch.Events[j].Room

\* C3: every placed event occupies an interval for which no calendar of its
\* attendees and not the calendar of its room reports a conflict.
C3_NoCalendarConflict ==
    \A i \in 1..Len(sch.Events) :
        LET e == sch.Events[i]
            ti == TimeInterval(e.Start, e.End)
        IN  /\ \A a \in Elems(e.Attendees) : ~CalendarOverlap(calendars[a], ti).overlaps
            /\ ~CalendarOverlap(calendars[e.Room], ti).overlaps

\* C3 witness: an event of an attendee whose calendar is busy at the anchor was
\* placed, and so was an event in a room whose calendar is busy at the anchor.
C3_Witness ==
    /\ calendars["c"] = BusyCalendar
    /\ calendars["r2"] = BusyCalendar
    /\ \E i \in 1..Len(sch.Events) : "c" \in Elems(sch.Events[i].Attendees)
    /\ \E i \in 1..Len(sch.Events) : sch.Events[i].Room = "r2"

\* C4: the duration of every scheduled event is its request's Length, however
\* often the candidate was moved.
C4_DurationIsLength ==
    \A i \in 1..Len(sch.Events) :
        sch.Events[i].End - sch.Events[i].Start = Req(sch.Events[i].Request).Length

\* C4 witness: an event was placed after its candidate had been moved and
\* counted as a retry.
C4_Witness ==
    /\ pc = "schedule"
    /\ iterations > 0
    /\ Len(sch.Events) = idx - 1
    /\ sch.Events[Len(sch.Events)].Start > earliest

\* C5: when Schedule succeeds the event list holds one event per request in
\* placement order: Events[i].Request is reqs[order[i]].
C5_PlacementOrder ==
    (pc \in {"scheduled", "returned"} /\ err = "nil") =>
        /\ Len(sch.Events) = Len(reqs)
        /\ \A i \in 1..Len(sch.Events) : sch.Events[i].Request = order[i]
        /\ \A r \in 0..(Len(reqs) - 1) :
              Cardinality({i \in 1..Len(sch.Events) : sch.Events[i].Request = r}) = 1

\* C5 witness: Schedule succeeded for an order that is not the identity and the
\* list is not chronological.
C5_Witness ==
    /\ pc = "scheduled"
    /\ err = "nil"
    /\ \E i \in 1..Len(order) : order[i] # i - 1
    /\ \E i \in 1..(Len(sch.Events) - 1) : sch.Events[i + 1].Start < sch.Events[i].Start

\* C6: Run ends in one of two ways: an event list that covers every request
\* and a nil error, or an error and no event list.
C6_RunTwoOutcomes ==
    (pc \in {"returned", "panic"}) =>
        /\ pc = "returned"
        /\ \/ /\ result.err = "nil"
              /\ {result.events[i].Request : i \in 1..Len(result.events)}
                    = 0..(Len(reqs) - 1)
           \/ /\ result.err \notin {"nil", "none"}
              /\ result.events = <<>>

\* C7: Add always terminates with a placement or an error: it does not panic
\* and its loop does not repeat for ever.
C7_AddTerminates == pc \notin {"panic", "hang"}

\* A start t at which request event could have been placed given the first
\* n events of the schedule: every attendee is free over [t, t + Length) in the
\* calendar and among the scheduled events, and so is some candidate room.
Feasible(t, event, n) ==
    LET ti == TimeInterval(t, t + Req(event).Length)
        before == {sch.Events[k] : k \in 1..n}
    IN  /\ \A a \in Elems(Req(event).Attendees) :
              /\ ~CalendarOverlap(calendars[a], ti).overlaps
              /\ \A e \in before : a \in Elems(e.Attendees) => ~Intersect(e, ti)
        /\ \E r \in Elems(Req(event).PossibleRooms) :
              /\ ~CalendarOverlap(calendars[r], ti).overlaps
              /\ \A e \in before : e.Room = r => ~Intersect(e, ti)

\* C8: every request is placed at the earliest feasible start: no start between
\* the anchor and the chosen one was free for all attendees and one candidate room.
C8_EarliestFeasible ==
    \A i \in 1..Len(sch.Events) :
        \A t \in earliest..(sch.Events[i].Start - 1) :
            ~Feasible(t, sch.Events[i].Request, i - 1)

\* C9: every event starts at or after the anchor, and while Add runs its
\* candidate never starts before the anchor.
C9_NotBeforeAnchor ==
    /\ \A i \in 1..Len(sch.Events) : sch.Events[i].Start >= earliest
    /\ pc \in {"add", "hang", "panic"} => candidate.Start >= earliest

\* C9 witness: Add is running on a candidate that a FakeCalendar holding an
\* event before the anchor has reported a conflict for.
C9_Witness ==
    /\ pc = "hang"
    /\ calendars["c"] = FakeCalendar
    /\ candidate.Start = earliest

\* C10: the second Schedule of the same ordering, requests and calendars ends
\* like the first: the same events in the same order, no error, and the same
\* cost in whatever order the maps are ranged over.
C10_Deterministic ==
    pass = 2 =>
        /\ pc \notin {"panic", "hang"}
        /\ err = "nil"
        /\ Len(sch.Events) <= Len(evaluated)
        /\ sch.Events = SubSeq(evaluated, 1, Len(sch.Events))
        /\ pc \in {"scheduled", "returned"} =>
              /\ sch.Events = evaluated
              /\ \A mapOrder \in AttendeeOrders(sch) : Evaluate(sch, earliest, mapOrder) = fitness

\* C10 witness: the second Schedule is over and it had two busy rooms to range
\* over: two events overlap in time and a third one was placed after them.
C10_Witness ==
    /\ pass = 2
    /\ pc = "scheduled"
    /\ \E i, j, k \in 1..Len(sch.Events) :
          /\ i < j /\ j < k
          /\ Intersect(sch.Events[i], sch.Events[j])
          /\ sch.Events[k].Start >= sch.Events[j].End

\* The preferred pause of an attendee: the Attendee of src/lib.go holds an ID
\* and a Calendar and nothing else, so no attendee prefers a pause.
PreferredPause(a) == 0

\* The events of evs that attendee a takes part in, by their start.
Chronological(evs, a) ==
    SortSeq(SelectSeq(evs, LAMBDA e : a \in Elems(e.Attendees)),
            LAMBDA x, y : x.Start < y.Start)

RECURSIVE GapsFrom(_, _, _)
\* The gaps between the consecutive events of list from index i on, each less pause.
GapsFrom(list, i, pause) ==
    IF i >= Len(list) THEN 0
    ELSE (list[i + 1].Start - list[i].End - pause) + GapsFrom(list, i + 1, pause)

RECURSIVE ChronologicalCost(_, _)
\* The cost of the events evs as section 4.3 states it, summed over the
\* attendees as: the first start after the anchor plus the gaps between the
\* attendee's chronologically consecutive events.
ChronologicalCost(evs, as) ==
    IF as = {} THEN 0
    ELSE LET a == CHOOSE x \in as : TRUE
             list == Chronological(evs, a)
         IN  (list[1].Start - earliest) + GapsFrom(list, 1, PreferredPause(a))
             + ChronologicalCost(evs, as \ {a})

\* C11: the cost Evaluate returns is the sum over the attendees with an event of
\* the distance from the anchor to the attendee's first event plus, for every
\* two consecutive events of the attendee's chronological list, the gap between
\* them less the attendee's preferred pause.
C11_ChronologicalCost ==
    (pass = 2 \/ pc = "returned") =>
        fitness = ChronologicalCost(
                      evaluated,
                      UNION {Elems(evaluated[i].Attendees) : i \in 1..Len(evaluated)})

\* Attendee a is free over ti: the calendar answers that nothing overlaps and
\* no scheduled event of a shares an instant with ti.
AttendeeFree(a, ti) ==
    /\ calendars[a].kind # "error"
    /\ ~CalendarOverlap(calendars[a], ti).overlaps
    /\ \A e \in Elems(sch.Events) : a \in Elems(e.Attendees) => ~Intersect(e, ti)

\* The turn of Add's loop on the present candidate asks a calendar that fails:
\* the calendar of an attendee, the attendees before it being free, or the
\* calendar of a candidate room, all attendees being free and every room before
\* it in the list being taken by a scheduled event or busy by its calendar.
CalendarFails ==
    LET ti == TimeInterval(candidate.Start, candidate.End)
        as == candidate.Attendees
        rs == Req(candidate.Request).PossibleRooms
        taken(r) == \E e \in Elems(sch.Events) : e.Room = r /\ Intersect(e, ti)
    IN  \/ \E i \in 1..Len(as) :
              /\ calendars[as[i]].kind = "error"
              /\ \A j \in 1..(i - 1) : AttendeeFree(as[j], ti)
        \/ /\ \A i \in 1..Len(as) : AttendeeFree(as[i], ti)
           /\ \E i \in 1..Len(rs) :
                 /\ ~taken(rs[i])
                 /\ calendars[rs[i]].kind = "error"
                 /\ \A j \in 1..(i - 1) :
                       \/ taken(rs[j])
                       \/ /\ calendars[rs[j]].kind # "error"
                          /\ CalendarOverlap(calendars[rs[j]], ti).overlaps

\* C12: when a calendar of an attendee or of a room fails while Add runs, Add
\* returns that error at once, without another try and without appending the
\* event; Schedule places no further request and Run returns the error as it is,
\* with no events.
C12_CalendarErrorPropagates ==
    [][ /\ (pc = "add" /\ CalendarFails) =>
              /\ pc' = "scheduled"
              /\ err' = "calendar error"
              /\ <<sch, idx, candidate, iterations>>' = <<sch, idx, candidate, iterations>>
        /\ (pc = "scheduled" /\ err = "calendar error") =>
              /\ pc' = "returned"
              /\ result' = [events |-> <<>>, err |-> "calendar error"]
              /\ <<sch, idx>>' = <<sch, idx>> ]_vars

\* C12 witness: Run has returned the calendar's error after one request was
\* placed, the second one failed and the third one was never tried.
C12_Witness ==
    /\ pc = "returned"
    /\ result = [events |-> <<>>, err |-> "calendar error"]
    /\ Len(sch.Events) = 1
    /\ idx = 2
    /\ Len(order) = 3

\* The request an error returned by Add names: errors.New builds the error
\* from its message alone, and so the error names no request.
errorRequest(e) == <<>>

\* C13: when Add gives up after MaxIterations tries, the error it returns is
\* told apart from a calendar's error and names the request that could not be
\* placed.
C13_NonConvergenceNamesRequest ==
    (pc = "scheduled" /\ err = "too many iterations") =>
        /\ err # "calendar error"
        /\ errorRequest(err) = <<candidate.Request>>

\* C14: Add on a request whose list of candidate rooms is empty never places
\* the request, and it ends by exceeding MaxIterations and returning the error
\* "too many iterations", also when no scheduled event overlaps the candidate.
C14_NoRoomsExhaustsIterations ==
    /\ \A i \in 1..Len(sch.Events) : Req(sch.Events[i].Request).PossibleRooms # <<>>
    /\ ( /\ \/ pc \in {"panic", "hang"}
            \/ pc = "scheduled" /\ err # "nil"
         /\ Req(candidate.Request).PossibleRooms = <<>> )
       => (pc = "scheduled" /\ err = "too many iterations")

\* C15: for two intervals with Start before End, a.Overlaps(b) is
\* b.Overlaps(a), and it is true exactly when a starts before b ends and b
\* starts before a ends; intervals that only touch do not overlap.
C15_OverlapsSymmetricHalfOpen ==
    LET a == overlapsCall.ti
        b == overlapsCall.ti2
    IN  (overlapsCall.overlaps # <<>> /\ a.Start < a.End /\ b.Start < b.End) =>
            /\ overlapsCall.overlaps[1] = Overlaps(b, a)
            /\ overlapsCall.overlaps[1] = (a.Start < b.End /\ b.Start < a.End)
            /\ (a.End = b.Start \/ b.End = a.Start) => ~overlapsCall.overlaps[1]

\* C15 witness: Overlaps has answered for two well-formed intervals of which
\* the first ends where the second starts.
C15_Witness ==
    /\ overlapsCall.overlaps = <<FALSE>>
    /\ overlapsCall.ti.Start < overlapsCall.ti.End
    /\ overlapsCall.ti2.Start < overlapsCall.ti2.End
    /\ overlapsCall.ti.End = overlapsCall.ti2.Start

\* Candidate.Evaluate has returned: fitness and evaluated hold its outcome.
Scored == pass = 2 \/ pc = "returned"

\* The request, start and end of every event of evs, in list order.
Placed(evs) == [i \in 1..Len(evs) |-> <<evs[i].Request, evs[i].Start, evs[i].End>>]

\* The attendees of the events evs.
AttendeesOf(evs) == UNION {Elems(evs[i].Attendees) : i \in 1..Len(evs)}

\* Request 1 (30 minutes, three attendees) at the anchor and request 0
\* (60 minutes, two of them) right after it.
ShortThenLong ==
    << [Start |-> earliest, End |-> earliest + 2, Attendees |-> <<"a", "b", "c">>,
        Room |-> "r1", Request |-> 1],
       [Start |-> earliest + 2, End |-> earliest + 6, Attendees |-> <<"a", "b">>,
        Room |-> "r1", Request |-> 0] >>

\* C16: for a request A of 60 minutes for two attendees and a request B of 30
\* minutes for the same two and a third, one room and no calendar entries, the
\* ordering B, A is the only one of least cost; its schedule is B at the anchor
\* and A right after it, and Run returns that schedule for it.
C16_ShortMeetingFirst ==
    (reqs = TestEarlierRequests /\ calendars = TestCalendars /\ Scored) =>
        /\ order = <<1, 0>> =>
              /\ evaluated = ShortThenLong
              /\ fitness = ChronologicalCost(ShortThenLong, AttendeesOf(ShortThenLong))
              /\ pc = "returned" => result = [events |-> ShortThenLong, err |-> "nil"]
        /\ order # <<1, 0>> =>
              fitness > ChronologicalCost(ShortThenLong, AttendeesOf(ShortThenLong))

\* C16 witness: Run has returned the events of the ordering B, A.
C16_Witness ==
    /\ reqs = TestEarlierRequests
    /\ pc = "returned"
    /\ order = <<1, 0>>
    /\ result.err = "nil"

RECURSIVE LengthsBefore(_, _)
\* The lengths of the requests that ordering o places before its i-th one.
LengthsBefore(o, i) ==
    IF i <= 1 THEN 0 ELSE Req(o[i - 1]).Length + LengthsBefore(o, i - 1)

\* The events of ordering o laid end to end from the anchor in placement
\* order, each in the first room of its request.
BackToBack(o) ==
    [i \in 1..Len(o) |->
        [Start |-> earliest + LengthsBefore(o, i),
         End |-> earliest + LengthsBefore(o, i) + Req(o[i]).Length,
         Attendees |-> Req(o[i]).Attendees,
         Room |-> Req(o[i]).PossibleRooms[1],
         Request |-> o[i]]]

\* The cost of the ordering 0, 1, 2, which puts the two meetings of the shared
\* attendee next to each other.
AdjacentCost ==
    ChronologicalCost(BackToBack(<<0, 1, 2>>), AttendeesOf(BackToBack(<<0, 1, 2>>)))

\* C17: for three requests of 60 minutes in one room with empty calendars,
\* request 0 for {a, b}, request 1 for {e, a} and request 2 for {c, d}, the
\* ordering 0, 2, 1 is scored strictly worse by Evaluate than the ordering
\* 0, 1, 2.
C17_FragmentedStrictlyWorse ==
    (reqs = TestFragmentedRequests /\ calendars = TestCalendars /\ Scored) =>
        /\ order = <<0, 1, 2>> => fitness = AdjacentCost
        /\ order = <<0, 2, 1>> => fitness > AdjacentCost

\* C17 as amended: the ordering 0, 2, 1 is scored no better than the ordering
\* 0, 1, 2; the two cost the same, what attendee a waits between the meetings
\* being what c and d start earlier.
C17_FragmentedNotBetter ==
    (reqs = TestFragmentedRequests /\ calendars = TestCalendars /\ Scored) =>
        /\ order = <<0, 1, 2>> => fitness = AdjacentCost
        /\ order = <<0, 2, 1>> => fitness = AdjacentCost

\* C17 witness: the ordering 0, 2, 1 has been scored, with a meeting of 60
\* minutes between the two meetings of attendee a.
C17_Witness ==
    /\ reqs = TestFragmentedRequests
    /\ Scored
    /\ order = <<0, 2, 1>>
    /\ Len(evaluated) = 3
    /\ evaluated[3].Start - evaluated[1].End = 4
    /\ "a" \in Elems(evaluated[1].Attendees) \cap Elems(evaluated[3].Attendees)

\* The cost of ordering o when its events lie end to end from the anchor.
BackToBackCost(o) == ChronologicalCost(BackToBack(o), AttendeesOf(BackToBack(o)))

\* The least cost of an ordering of the requests.
LeastCost == Min({BackToBackCost(o) : o \in Orders(Len(reqs))})

\* C18: for three requests of 60 minutes in one room with empty calendars,
\* R0 for {a, b}, R1 for {c, d} and R2 for {e, a}, every ordering of least cost
\* has its first event at the anchor and R0 or R2 as its middle event, and so
\* has what Run returns for such an ordering.
C18_SharedAttendeeAdjacent ==
    (reqs = TestDayFragmentationRequests /\ calendars = TestCalendars /\ Scored) =>
        /\ fitness = BackToBackCost(order)
        /\ fitness = LeastCost =>
              /\ Len(evaluated) = 3
              /\ evaluated[1].Start = earliest
              /\ evaluated[2].Request \in {0, 2}
              /\ evaluated[2].Start = evaluated[1].End
              /\ pc = "returned" => result = [events |-> evaluated, err |-> "nil"]

\* C18 witness: Run has returned the events of an ordering of least cost, one
\* that does not start with R0.
C18_Witness ==
    /\ reqs = TestDayFragmentationRequests
    /\ pc = "returned"
    /\ fitness = LeastCost
    /\ Len(result.events) = 3
    /\ result.events[1].Request = 1

\* Every request asks for the same single room and has a positive length, and
\* every calendar is empty.
OneRoomNoCalendars ==
    /\ \A i \in 1..Len(reqs) :
          /\ Len(reqs[i].PossibleRooms) = 1
          /\ reqs[i].PossibleRooms = reqs[1].PossibleRooms
          /\ reqs[i].Length > 0
    /\ \A id \in DOMAIN calendars : calendars[id] = EmptyCalendar

\* C19: when every request asks for the same single room, every length is
\* positive and every calendar is empty, the events of every ordering lie end
\* to end in placement order, whether or not requests share attendees: the
\* i-th event placed starts at the anchor plus the lengths of the requests
\* placed before it and lasts its own length; Schedule never fails, and a single
\* request occupies the anchor to the anchor plus its length.
C19_BackToBack ==
    OneRoomNoCalendars =>
        /\ sch.Events = SubSeq(BackToBack(order), 1, Len(sch.Events))
        /\ pc \notin {"panic", "hang"}
        /\ err = "nil"
        /\ pc \in {"scheduled", "returned"} => sch.Events = BackToBack(order)
        /\ (Len(reqs) = 1 /\ pc = "returned") =>
              /\ Len(result.events) = 1
              /\ result.events[1].Start = earliest
              /\ result.events[1].End = earliest + reqs[1].Length

\* C19 witness: Schedule has placed the requests of 15, 60 and 30 minutes in
\* the order 0, 1, 2, the third of which shares no attendee with the others.
C19_Witness ==
    /\ reqs = TestSchedulingRequests
    /\ order = <<0, 1, 2>>
    /\ pc = "scheduled"
    /\ Placed(sch.Events) =
          <<<<0, earliest, earliest + 1>>, <<1, earliest + 1, earliest + 5>>,
            <<2, earliest + 5, earliest + 7>>>>

\* o holds each of 0..n-1 once.
IsPermutation(o, n) == Len(o) = n /\ {o[i] : i \in 1..Len(o)} = 0..(n - 1)

\* C20: the order of every candidate is a permutation of 0..n-1 at all times:
\* as ScheduleFactory returns it and after every Clone, Crossover (both
\* candidates) and Mutate; so Schedule never indexes reqs out of range and a
\* Schedule that succeeds has placed every request once.
C20_OrderIsPermutation ==
    /\ \A i \in 1..Len(population) : IsPermutation(population[i], Len(reqs))
    /\ pc # "minimize" => IsPermutation(order, Len(reqs))
    /\ pc \in {"add", "panic", "hang"} => candidate.Request \in 0..(Len(reqs) - 1)
    /\ \A i \in 1..Len(sch.Events) : sch.Events[i].Request = order[i]
    /\ (pc \in {"scheduled", "returned"} /\ err = "nil") =>
          \A r \in 0..(Len(reqs) - 1) :
              Cardinality({i \in 1..Len(sch.Events) : sch.Events[i].Request = r}) = 1

\* C20 witness: Run has returned the events of a candidate that a Crossover
\* left, after the population had been filled, different from the identity.
C20_Witness ==
    /\ pc = "returned"
    /\ result.err = "nil"
    /\ operator = "Crossover"
    /\ order # <<0, 1, 2>>
    /\ Len(result.events) = 3

\* C21: two evaluations of candidates with different orders share nothing
\* they write.  However the steps of the two calls of Evaluate interleave,
\* each call ends with the schedule, the cost and the error it ends with when
\* it runs alone, and the request list and the two orders stay as they were.
C21_EvaluationsIndependent ==
    /\ reqs = MinimizeRequests
    /\ Len(alone) = 2 =>
          /\ running.order # other.order
          /\ \A run \in {running, other} :
                /\ \E a \in Elems(alone) : a.order = run.order
                /\ finished(run) => run \in Elems(alone)

\* One call has scored a schedule of three events while the other, which
\* started before it, is still inside Add with an event placed.
C21_Witness ==
    /\ Len(alone) = 2
    /\ pass = 2
    /\ Len(evaluated) = 3
    /\ other.pc = "add"
    /\ Len(other.sch.Events) >= 1

\* The events that keep attendee a from ti: the one the calendar of a reports
\* and the scheduled events of a that share an instant with ti.
ConflictsOf(a, ti) ==
    LET cal == CalendarOverlap(calendars[a], ti)
    IN  (IF cal.overlaps THEN {cal.ev[1]} ELSE {})
        \cup {TimeInterval(e.Start, e.End) :
                e \in {x \in Elems(sch.Events) : a \in Elems(x.Attendees) /\ Intersect(x, ti)}}

\* The attendees of the candidate whose conflict Add's attendee check finds:
\* the first attendee of the request that is not free, unless a calendar fails.
ConflictingAttendees ==
    LET ti == TimeInterval(candidate.Start, candidate.End)
        as == candidate.Attendees
    IN  {as[i] : i \in {k \in 1..Len(as) :
                          /\ calendars[as[k]].kind # "error"
                          /\ ~AttendeeFree(as[k], ti)
                          /\ \A j \in 1..(k - 1) : AttendeeFree(as[j], ti)}}

\* C22: when Add's attendee check finds a conflict, the candidate starts at
\* the end of a conflicting event of that attendee plus that attendee's
\* preferred pause and ends Length later; no room is looked for (no room is
\* assigned, iterations is not counted up, nothing is appended) and the
\* attendee check runs again on the moved candidate.
C22_AttendeeConflictAdvance ==
    [][ (pc = "add" /\ ConflictingAttendees # {}) =>
           /\ \E a \in ConflictingAttendees :
                 \E x \in ConflictsOf(a, TimeInterval(candidate.Start, candidate.End)) :
                    candidate'.Start = x.End + expectedPause[a]
           /\ candidate'.End = candidate'.Start + Req(candidate.Request).Length
           /\ candidate'.Room = NoRoom
           /\ <<sch, idx, iterations, err>>' = <<sch, idx, iterations, err>>
           /\ pc' \in {"add", "hang"} ]_vars

\* C22 witness: the candidate of a request stands one pause after the end of
\* a scheduled event with which it shares an attendee who prefers a pause,
\* before any room retry.
C22_Witness ==
    /\ pc = "add"
    /\ iterations = 0
    /\ candidate.End = candidate.Start + Req(candidate.Request).Length
    /\ \E e \in Elems(sch.Events) :
          \E a \in Elems(e.Attendees) \cap Elems(candidate.Attendees) :
             /\ expectedPause[a] = 1
             /\ candidate.Start = e.End + expectedPause[a]

\* The already scheduled events that overlap the candidate interval.
OverlappingEvents ==
    {e \in Elems(sch.Events) : Intersect(e, candidate)}

\* C23: a turn of Add's loop that finds no room free (the turn that counts
\* iterations up) moves the candidate to the least End of the scheduled
\* events that overlap the candidate interval, which is strictly later than
\* the start the candidate had: every room retry makes progress in time.
C23_RoomRetryProgress ==
    [][ (pc = "add" /\ iterations' = iterations + 1) =>
           /\ OverlappingEvents # {}
           /\ candidate'.Start = Min({e.End : e \in OverlappingEvents})
           /\ candidate'.Start > candidate.Start ]_vars

\* Every attendee of the candidate is free, no scheduled event overlaps the
\* candidate interval, and every room of the request, of which there is at
\* least one, is reported busy by its own calendar.
OnlyCalendarsBusy ==
    LET ti == TimeInterval(candidate.Start, candidate.End)
        rs == Req(candidate.Request).PossibleRooms
    IN  /\ rs # <<>>
        /\ \A a \in Elems(candidate.Attendees) : AttendeeFree(a, ti)
        /\ OverlappingEvents = {}
        /\ \A r \in Elems(rs) :
              /\ calendars[r].kind # "error"
              /\ CalendarOverlap(calendars[r], ti).overlaps

\* C24: when the rooms of a request are unavailable only because their
\* calendars report conflicts, Add has a later time to go to: it does not fail
\* on a next-time value that is missing.
C24_CalendarBusyRetries ==
    (pc \in {"add", "panic"} /\ OnlyCalendarsBusy) => pc # "panic"

\* Room r cannot be had by the k-th event of the schedule: a scheduled event
\* before it uses r at an overlapping time or the calendar of r reports a
\* conflict for the interval of the event.
RoomTaken(r, k) ==
    \/ \E j \in 1..(k - 1) : sch.Events[j].Room = r /\ Intersect(sch.Events[j], sch.Events[k])
    \/ CalendarOverlap(calendars[r], TimeInterval(sch.Events[k].Start, sch.Events[k].End)).overlaps

\* C25: the room of every event is one of the rooms its request lists, and it
\* is the first of them, in the order of the list, that is neither used by an
\* already scheduled event overlapping the chosen interval nor reported busy
\* by its own calendar for that interval.
C25_FirstAvailableRoom ==
    \A k \in 1..Len(sch.Events) :
       LET rs == Req(sch.Events[k].Request).PossibleRooms
       IN  \E i \in 1..Len(rs) :
              /\ sch.Events[k].Room = rs[i]
              /\ ~RoomTaken(rs[i], k)
              /\ \A j \in 1..(i - 1) : RoomTaken(rs[j], k)

\* C25 witness: three events are placed and one of them is in the second room
\* of its request's list, an earlier event being in the first.
C25_Witness ==
    /\ \E k \in 1..Len(sch.Events) :
          /\ Len(Req(sch.Events[k].Request).PossibleRooms) = 2
          /\ sch.Events[k].Room = Req(sch.Events[k].Request).PossibleRooms[2]
          /\ \E j \in 1..(k - 1) :
                sch.Events[j].Room = Req(sch.Events[k].Request).PossibleRooms[1]
    /\ Len(sch.Events) = 3

\* C26: the list of scheduled events kept for every attendee is sorted by
\* start time, so that neighbours in the list are meetings that follow each
\* other in time.
C26_AttendeeListSorted ==
    \A a \in DOMAIN sch.eventsByAttendee :
       LET list == sch.eventsByAttendee[a].Scheduled
       IN  \A i \in 1..(Len(list) - 1) : list[i].Start <= list[i + 1].Start

\* C27: in every constructed schedule the placement keeps the preferred pause
\* as a least gap: for every attendee and every two neighbours of the
\* attendee's event list, next.Start - previous.End - pause >= 0; hence the
\* cost Evaluate returns is not negative.
C27_GapsNonNegative ==
    /\ \A a \in DOMAIN sch.eventsByAttendee :
          LET list == sch.eventsByAttendee[a].Scheduled
          IN  \A i \in 1..(Len(list) - 1) :
                 list[i + 1].Start - list[i].End - expectedPause[a] >= 0
    /\ Scored => fitness >= 0

\* C28: when the placement of a request fails, the construction is given up as
\* a whole: Schedule returns the error and no partly built schedule, and
\* Evaluate computes no cost from the events placed before the failure.
C28_NoPartialSchedule ==
    /\ (pc = "scheduled" /\ err # "nil") => sch.Events = <<>>
    /\ (pc = "returned" /\ err # "nil") => (evaluated = <<>> /\ fitness = 0)

\* C29: a call of Add that returns an error, from a calendar or for want of
\* convergence, leaves the constructed schedule as it was: no turn of Add's
\* loop changes Events or a per-attendee list or adds an attendee key, except
\* the one that ends the call with nil.
C29_FailedAddChangesNothing ==
    [][ pc = "add" =>
           /\ (pc' = "schedule" /\ err' = "nil") \/ sch' = sch
           /\ err' # "nil" =>
                 /\ sch'.Events = sch.Events
                 /\ DOMAIN sch'.eventsByAttendee = DOMAIN sch.eventsByAttendee
                 /\ \A a \in DOMAIN sch.eventsByAttendee :
                       sch'.eventsByAttendee[a].Scheduled = sch.eventsByAttendee[a].Scheduled ]_vars

\* C29 witness: Add has returned an error for a request after another request
\* was placed; no attendee of the failed request has a key.
C29_Witness ==
    /\ pc = "scheduled"
    /\ err # "nil"
    /\ Len(sch.Events) = 1
    /\ idx = 2
    /\ \A a \in Elems(candidate.Attendees) : a \notin DOMAIN sch.eventsByAttendee

\* C30: the attendee index agrees with the event list.  eventsByAttendee has
\* a key for exactly the attendees of the placed requests; the list of every
\* key is not empty and is the subsequence of Events, in placement order, of
\* the events whose request lists the attendee, each of them once.
C30_IndexConsistent ==
    /\ DOMAIN sch.eventsByAttendee =
          UNION {Elems(Req(sch.Events[i].Request).Attendees) : i \in 1..Len(sch.Events)}
    /\ \A a \in DOMAIN sch.eventsByAttendee :
          /\ sch.eventsByAttendee[a].Attendee = a
          /\ sch.eventsByAttendee[a].Scheduled # <<>>
          /\ sch.eventsByAttendee[a].Scheduled =
                SelectSeq(sch.Events, LAMBDA e : a \in Elems(Req(e.Request).Attendees))

\* C30 witness: three events are placed; an attendee is in two of them and
\* not in the first, another attendee is in one only.
C30_Witness ==
    /\ Len(sch.Events) = 3
    /\ \E a, b \in DOMAIN sch.eventsByAttendee :
          /\ Len(sch.eventsByAttendee[a].Scheduled) = 2
          /\ a \notin Elems(sch.Events[1].Attendees)
          /\ Len(sch.eventsByAttendee[b].Scheduled) = 1

====
